---- MODULE Spec2Model ----
(***************************************************************************)
(* Ingestion pipeline of marie_rag_indexing.                               *)
(*                                                                         *)
(*   backend/app/application/services/orchestrator.py                      *)
(*       IngestionOrchestrator._process_document, IngestionOrchestrator.run*)
(*   backend/app/api/routes/ingestion.py                                   *)
(*       trigger_ingestion (update_progress, run_job), cancel_job          *)
(*   backend/app/infrastructure/persistence/opensearch_store.py            *)
(*       OpenSearchStore.update                                            *)
(*                                                                         *)
(*       trigger_ingestion (set_total), retry_job                          *)
(*   backend/app/application/services/embeddings.py    EmbeddingEngine     *)
(*   backend/app/application/services/chunking.py      ChunkingEngine      *)
(*   backend/app/infrastructure/adapters/vector_stores/*.py                *)
(*       create_index, index_chunks, search                                *)
(*                                                                         *)
(* One job is followed from the moment trigger_ingestion has stored its    *)
(* record and queued run_job as a background task.  The main thread of     *)
(* run_job (variable pc) executes run(); in parallel mode the tasks of the *)
(* ThreadPoolExecutor are separate processes (variable tasks).             *)
(*                                                                         *)
(* Spec and JobSpec follow that job over every stream of MaxDocs           *)
(* documents.  TotalSpec, ConstructSpec, RetrySpec, AdminSpec and          *)
(* CallbackSpec follow it over short streams together with the total       *)
(* callback, the constructor of the orchestrator, retry_job, delete_job    *)
(* and a progress callback that raises; CancelFairSpec and LiveSpec add    *)
(* the fairness of the threads of the run.  EmbedSpec, ChunkSpec and       *)
(* StoreSpec exercise the embedding engine, the chunking engine and the    *)
(* vector-store adapters on their own, SourcesSpec the source registry of  *)
(* backend/app/api/routes/sources.py.                                      *)
(***************************************************************************)
EXTENDS Integers, Sequences, FiniteSets, TLC

\* ------------------------------------------------------------------ bounds
MaxDocs == 3        \* longest document stream the source yields
MaxChunks == 2      \* most segments the splitter returns for one document
MaxWorkers == 2     \* largest max_workers tried
MaxCancels == 1     \* cancel_job requests issued against the job
SmallDocs == 2      \* longest stream in the specifications of single handlers
MaxCount == 2       \* largest total get_document_count reports
MaxDim == 3         \* longest vector an embedding model produces
MaxTexts == 2       \* longest batch handed to embed_text
MaxChunkSize == 2   \* largest chunk_size and chunk_overlap of a ChunkConfig
MaxRetries == 2     \* retry_job requests issued
MaxDeletes == 2     \* delete_job requests issued against the job
MaxAdds == 3        \* add_source requests issued

\* --------------------------------------------------------------- constants
\* while len(futures_to_doc_num) >= self.max_workers * 2
WindowFactor == 2

VARIABLES
    source,               \* the data source: [docs, raises, count]
    execution_mode,       \* "sequential" | "parallel"
    progress_raises_at,   \* the invocation at which the progress callback
                          \* raises, 0 for a callback that never raises
    max_workers,          \* size of the worker pool
    pc,                   \* position of the run_job thread
    pulls,                \* number of next() calls made on load_data()
    doc_count,            \* run(): doc_count
    chunk_count,          \* run(): chunk_count
    tasks,                \* executor work items, in submission order
    futures_to_doc_num,   \* run(): dict future -> ordinal
    result,               \* what run() returned
    calls,                \* history: document ordinal -> outcome of its
                          \* finished _process_document call
    collected,            \* history: futures whose result() was taken
    progress_calls,       \* history: arguments of progress_callback
    total_calls,          \* history: arguments of total_callback
    submitted,            \* history: document ordinal -> batch given to sink
    sink,                 \* vector store: document ordinal -> accepted batch
    jobs_store,           \* job id -> job record
    cancel_pc,            \* position of the cancel_job request handler
    cancel_seen,          \* status cancel_job read with jobs_store.get
    cancels,              \* number of cancel_job requests so far
    delete_pc,            \* position of the delete_job request handler
    deletes,              \* number of delete_job requests so far
    admin_response,       \* the last answer of cancel_job or delete_job
    data_sources,         \* the module-level list of sources.py
    adds,                 \* number of add_source requests so far
    source_response,      \* the last answer of add_source or delete_source
    retry_response,       \* what the last retry_job request was answered
    retries,              \* number of retry_job requests so far
    engine,               \* the EmbeddingEngine under construction or built
    embedded,             \* the last embed_text call: its batch and outcome
    index_name,           \* the index the ingestion request names
    indices,              \* the vector store: index name -> dimension
    create_index_calls,   \* history: the create_index calls and how they ended
    chunker,              \* the ChunkingEngine: its state and its ChunkConfig
    split,                \* the last ChunkingEngine.split_text call
    stored,               \* the chunk written with index_chunks, as kept
    found                 \* what search returned for the written chunk

vars == <<data_sources, adds, source_response, source, execution_mode,
          max_workers, progress_raises_at, pc, pulls, doc_count, chunk_count,
          tasks, futures_to_doc_num, result, calls, collected, progress_calls,
          total_calls, submitted, sink, jobs_store, cancel_pc, cancel_seen,
          cancels, delete_pc, deletes, admin_response, retry_response,
          retries, engine, embedded, index_name, indices, create_index_calls,
          chunker, split, stored, found>>

\* the state of the components exercised on their own
index_vars == <<index_name, indices, create_index_calls>>

chunk_vars == <<chunker, split>>

retry_vars == <<retry_response, retries>>

delete_vars == <<delete_pc, deletes>>

sources_vars == <<data_sources, adds, source_response>>

store_vars == <<stored, found>>

unit_vars == <<engine, embedded, index_vars, chunk_vars, store_vars>>

\* the state of the ingestion job
run_vars == <<data_sources, adds, source_response, source, execution_mode,
              max_workers, progress_raises_at, pc, pulls, doc_count,
              chunk_count, tasks, futures_to_doc_num, result, calls,
              collected, progress_calls, total_calls, submitted, sink,
              jobs_store, cancel_pc, cancel_seen, cancels, delete_pc, deletes,
              admin_response, retry_response, retries>>

\* ------------------------------------------------------------- documents
\* A document is described by what the collaborators do with it:
\*   chunks  number of segments split_text returns for its content
\*   fault   the step of _process_document that raises for it
\*   failed  number of its chunks the sink reports as failed
\* A document is empty (no segment) or splits into MaxChunks segments; the
\* embedding engine and the sink are only reached for a non-empty document.
Faults == {"none", "chunking", "embedding", "sink"}

Min(a, b) == IF a < b THEN a ELSE b

DocKinds ==
    {d \in [chunks : {0, MaxChunks}, fault : Faults, failed : 0..1] :
        /\ d.fault = "chunking" => (d.chunks = 0 /\ d.failed = 0)
        /\ d.fault \in {"embedding", "sink"} => (d.chunks > 0 /\ d.failed = 0)
        /\ d.failed = 1 => d.chunks > 0}

\* What the source answers to get_document_count: the method is missing
\* (has = FALSE), raises, or returns value.
NoCount == [has |-> FALSE, raises |-> FALSE, value |-> 0]

CountKinds ==
    {NoCount, [has |-> TRUE, raises |-> TRUE, value |-> 0]}
    \cup {[has |-> TRUE, raises |-> FALSE, value |-> n] : n \in 0..MaxCount}

\* the documents of the short streams: one that splits into MaxChunks
\* accepted chunks and one whose chunking raises
SmallDocKinds ==
    {d \in DocKinds : d.failed = 0 /\ d.fault \in {"none", "chunking"}
                      /\ (d.fault = "none" => d.chunks > 0)}

RECURSIVE SeqsUpTo(_, _)
SeqsUpTo(S, n) ==
    IF n = 0 THEN {<<>>}
    ELSE LET shorter == SeqsUpTo(S, n - 1)
         IN  shorter \cup {Append(s, x) : s \in {t \in shorter : Len(t) = n - 1}, x \in S}

JobId == 1

JobIds == {JobId}

\* ------------------------------------------- the collaborators, per document
Returned(v) == [raised |-> FALSE, value |-> v]
Raised == [raised |-> TRUE, value |-> 0]

\* ChunkingEngine.split_text: the splitter's segments, or an exception
split_text(doc) ==
    IF doc.fault = "chunking" THEN Raised ELSE Returned(doc.chunks)

\* EmbeddingEngine.embed_text on the n texts of a document: n vectors
embed_text(doc, n) ==
    IF doc.fault = "embedding" THEN Raised ELSE Returned(n)

\* VectorStorePort.index_chunks on n chunks: the success count (the failed
\* count is n minus it), or an exception
index_chunks(doc, n) ==
    IF doc.fault = "sink" THEN Raised ELSE Returned(n - Min(doc.failed, n))

\* --------------------------------------------------- _process_document
\* Outcome of one call: raised (to the caller), ret (the int returned),
\* embed_calls / sink_calls (calls made), batch (chunks handed to the sink
\* by a call that returned).
Outcome(r, v, e, s, b) ==
    [raised |-> r, ret |-> v, embed_calls |-> e, sink_calls |-> s, batch |-> b]

\* a variant that returns the size of the batch handed to the sink
process_document_body_batch_size(doc) ==
    LET raw_chunks == split_text(doc) IN
    IF raw_chunks.raised THEN Outcome(TRUE, 0, 0, 0, 0)
    ELSE IF raw_chunks.value = 0 THEN Outcome(FALSE, 0, 0, 0, 0)
    ELSE LET n == raw_chunks.value
             embeddings == embed_text(doc, n) IN
         IF embeddings.raised THEN Outcome(TRUE, 0, 1, 0, 0)
         ELSE LET indexed == index_chunks(doc, n) IN
              IF indexed.raised THEN Outcome(TRUE, 0, 1, 1, 0)
              ELSE Outcome(FALSE, n, 1, 1, n)

\* the statements inside the try block, lines 60-98
process_document_body(doc) ==
    LET raw_chunks == split_text(doc) IN
    IF raw_chunks.raised THEN Outcome(TRUE, 0, 0, 0, 0)
    ELSE IF raw_chunks.value = 0 THEN Outcome(FALSE, 0, 0, 0, 0)
    ELSE LET n == raw_chunks.value
             embeddings == embed_text(doc, n) IN
         IF embeddings.raised THEN Outcome(TRUE, 0, 1, 0, 0)
         ELSE LET indexed == index_chunks(doc, n) IN
              IF indexed.raised THEN Outcome(TRUE, 0, 1, 1, 0)
              ELSE Outcome(FALSE, indexed.value, 1, 1, n)

\* a variant that lets the exception out
except_Exception_reraise(out) == out

\* a variant whose try block covers the sink call only
except_Exception_sink_only(out) ==
    IF out.raised /\ out.sink_calls = 1
    THEN [out EXCEPT !.raised = FALSE, !.ret = 0] ELSE out

\* the except clause, lines 99-102: log and return 0
except_Exception(out) ==
    IF out.raised THEN [out EXCEPT !.raised = FALSE, !.ret = 0] ELSE out

process_document(doc) == except_Exception(process_document_body(doc))

\* ------------------------------------------------------------ run(): helpers
\* a variant that lets one more future in before waiting
WindowFull_off_by_one(futures, workers) ==
    Cardinality(DOMAIN futures) > workers * WindowFactor

\* len(futures_to_doc_num) >= self.max_workers * 2
WindowFull(futures, workers) ==
    Cardinality(DOMAIN futures) >= workers * WindowFactor

\* a variant that reports the counts gathered so far
ErrorResult_counts(docs, chunks) == [documents |-> docs, chunks |-> chunks]

\* return {"error": str(e)}
ErrorResult(docs, chunks) == [error |-> "exception"]

\* a variant that counts only the documents that produced chunks
SuccessResult_nonempty(docs, chunks) ==
    [documents |-> Min(docs, chunks), chunks |-> chunks]

\* return {"documents": doc_count, "chunks": chunk_count}
SuccessResult(docs, chunks) == [documents |-> docs, chunks |-> chunks]

NoResult == [pending |-> TRUE]

\* a variant that assigns instead of accumulating
AddChunks_assign(total, chunks) == chunks

\* chunk_count += chunks
AddChunks(total, chunks) == total + chunks

\* dict.get(key, default)
DictGet(d, key, default) == IF key \in DOMAIN d THEN d[key] ELSE default

\* dict.pop(key)
DictPop(d, key) == [k \in DOMAIN d \ {key} |-> d[k]]

AllDone(ts) == \A f \in DOMAIN ts : ts[f].state = "done"

Pending(ts) == {f \in DOMAIN ts : ts[f].state = "pending"}

\* a variant whose worker threads end after their first work item
Running_one_item_per_thread(ts, workers) ==
    {f \in Pending(ts) : f <= workers}

\* The work items that worker threads are executing.  The executor's queue
\* is FIFO and has `workers` threads, each taking the oldest queued item as
\* soon as it is idle: the items being executed are the `workers` oldest
\* unfinished ones, the later ones wait in the queue.
Running(ts, workers) ==
    {f \in Pending(ts) : Cardinality({g \in Pending(ts) : g < f}) < workers}

\* ------------------------------------------------------------- job registry
\* OpenSearchStore.update: a partial update of an existing record; a missing
\* record (NotFoundError) and every other error are swallowed
StoreUpdate(store, id, data) ==
    IF id \in DOMAIN store
    THEN [store EXCEPT ![id] =
            [k \in DOMAIN @ \cup DOMAIN data |->
                IF k \in DOMAIN data THEN data[k] ELSE @[k]]]
    ELSE store

\* job_data of trigger_ingestion, lines 113-137
NewJob ==
    [status |-> "running", documents_processed |-> 0, total_documents |-> 0,
     chunks_created |-> 0, error |-> "None",
     config |-> [execution_mode |-> execution_mode,
                 max_workers |-> max_workers]]

\* the answers of cancel_job and delete_job: the handler and the HTTP
\* status code
NoAnswer == [handler |-> "none", code |-> 0]

Answer(handler, code) == [handler |-> handler, code |-> code]

\* ------------------------------------------------------------ sources.py
\* str(n) of a non-negative integer
str(n) == ToString(n)

SourceNames == {"Docs A", "Docs B"}

\* a stored source: the fields the handlers below read or compare
StoredSource(id, name) == [id |-> id, name |-> name]

\* the list the module starts with, lines 46-55
DemoSources == <<StoredSource("1", "Local Docs")>>

\* the ids a request can name
SourceIds == {str(n) : n \in 1..(MaxAdds + 1)}

\* [s for s in data_sources if s["id"] != source_id]
RECURSIVE WithoutId(_, _)
WithoutId(srcs, source_id) ==
    IF srcs = <<>> THEN <<>>
    ELSE IF Head(srcs).id = source_id THEN WithoutId(Tail(srcs), source_id)
    ELSE <<Head(srcs)>> \o WithoutId(Tail(srcs), source_id)

\* a retry_job request that was not made yet, and the answers to one
NoResponse == [code |-> 0]

Response(code, job_id, new_job_id) ==
    [code |-> code, original_job_id |-> job_id, new_job_id |-> new_job_id]

\* self.data_source.get_document_count(), line 118
get_document_count(src) ==
    IF src.count.raises THEN Raised ELSE Returned(src.count.value)

\* a variant without the truth test on total_docs
total_callback_args_untested(src) ==
    IF ~src.count.has THEN <<>>
    ELSE LET total_docs == get_document_count(src) IN
         IF total_docs.raised THEN <<>> ELSE <<total_docs.value>>

\* run(), lines 115-123: the arguments of the total_callback calls made.
\* hasattr guards the query, the try block swallows what it raises, and
\* "if total_docs and self.total_callback" skips a count of 0.
total_callback_args(src) ==
    IF ~src.count.has THEN <<>>
    ELSE LET total_docs == get_document_count(src) IN
         IF total_docs.raised THEN <<>>
         ELSE IF total_docs.value # 0 THEN <<total_docs.value>> ELSE <<>>

\* set_total(total), lines 150-152
set_total(store, total) ==
    StoreUpdate(store, JobId, [total_documents |-> total])

\* a variant that reports the running counter instead of the queued ordinal
update_progress_args_counter(completed_doc_num, counter, chunks) ==
    <<counter, chunks>>

\* the arguments run() passes to progress_callback
update_progress_args(completed_doc_num, counter, chunks) ==
    <<completed_doc_num, chunks>>

\* a variant that leaves the record of a job that is no longer running alone
update_progress_if_running(store, docs, chunks) ==
    IF JobId \in DOMAIN store /\ store[JobId].status = "running"
    THEN StoreUpdate(store, JobId,
                     [documents_processed |-> docs, chunks_created |-> chunks])
    ELSE store

\* update_progress(docs, chunks), lines 141-147
update_progress(store, docs, chunks) ==
    StoreUpdate(store, JobId,
                [documents_processed |-> docs, chunks_created |-> chunks])

\* a variant in which an exception of the callback is caught and logged
progress_callback_raises_isolated(raises_at, n) == FALSE

\* the n-th invocation self.progress_callback(...) raises
progress_callback_raises(raises_at, n) == raises_at # 0 /\ n = raises_at

\* no ingestion was triggered: the registry is empty
RunIdle ==
    /\ source = [docs |-> <<>>, raises |-> FALSE, count |-> NoCount]
    /\ progress_raises_at = 0
    /\ execution_mode = "sequential"
    /\ max_workers = 1
    /\ pc = "idle"
    /\ pulls = 0
    /\ doc_count = 0
    /\ chunk_count = 0
    /\ tasks = <<>>
    /\ futures_to_doc_num = <<>>
    /\ result = NoResult
    /\ calls = <<>>
    /\ collected = <<>>
    /\ progress_calls = <<>>
    /\ total_calls = <<>>
    /\ submitted = <<>>
    /\ sink = <<>>
    /\ jobs_store = <<>>
    /\ cancel_pc = "idle"
    /\ cancel_seen = "None"
    /\ cancels = 0
    /\ delete_pc = "idle"
    /\ deletes = 0
    /\ admin_response = NoAnswer
    /\ data_sources = DemoSources
    /\ adds = 0
    /\ source_response = NoAnswer
    /\ retry_response = NoResponse
    /\ retries = 0

\* ------------------------------------------------------- chunking engine
\* chunk_size: int = 1000 and chunk_overlap: int = 200, chunking.py 13-14
DefaultChunkSize == 1000

DefaultChunkOverlap == 200

Strategies == {"recursive", "character", "token", "markdown"}

ChunkConfig(strategy, chunk_size, chunk_overlap) ==
    [strategy |-> strategy, chunk_size |-> chunk_size,
     chunk_overlap |-> chunk_overlap]

DefaultChunkConfig ==
    ChunkConfig("recursive", DefaultChunkSize, DefaultChunkOverlap)

\* ChunkConfig(**chunk_settings): a pydantic model with typed fields and no
\* validator, so every pair of integers makes a config
ChunkConfigs ==
    {ChunkConfig(st, sz, ov) :
        st \in Strategies, sz \in -1..MaxChunkSize, ov \in -1..MaxChunkSize}

\* The constructor of the langchain splitter every branch of _get_splitter
\* calls with the config's chunk_size and chunk_overlap. It raises when the
\* overlap is larger than the size; strict tells whether the installed
\* release also refuses a size <= 0 and a negative overlap.
TextSplitter_raises(chunk_size, chunk_overlap, strict) ==
    \/ chunk_overlap > chunk_size
    \/ strict /\ (chunk_size <= 0 \/ chunk_overlap < 0)

Chunker(st, config) == [state |-> st, config |-> config]

NoChunker == Chunker("none", DefaultChunkConfig)

\* ChunkingEngine.__init__ and _get_splitter, lines 24-60: the config is
\* handed to the splitter as it is
ChunkingEngine_init(config, strict) ==
    IF TextSplitter_raises(config.chunk_size, config.chunk_overlap, strict)
    THEN Chunker("raised", config)
    ELSE Chunker("built", config)

\* chunk_metadata["chunk_index"] = i
SetItem(d, key, value) ==
    [k \in DOMAIN d \cup {key} |-> IF k = key THEN value ELSE d[k]]

\* metadata.copy() if metadata else {}
dict_copy(metadata) == metadata

\* a variant that writes chunk_index into the caller's map: every result
\* and the caller then hold the one map, with the last index
ChunkingEngine_split_text_shared(chunks, metadata) ==
    LET last == IF chunks = <<>> \/ metadata = <<>> THEN metadata
                ELSE SetItem(metadata, "chunk_index", Len(chunks) - 1)
    IN  [result |-> [i \in 1..Len(chunks) |->
                        [content |-> chunks[i],
                         metadata |-> IF metadata = <<>>
                                      THEN SetItem(<<>>, "chunk_index", i - 1)
                                      ELSE last]],
         metadata |-> last]

\* ChunkingEngine.split_text, lines 62-72, on the segments the splitter
\* returned: the result list, and the caller's metadata map after the call
ChunkingEngine_split_text(chunks, metadata) ==
    [result |-> [i \in 1..Len(chunks) |->
                    [content |-> chunks[i],
                     metadata |-> SetItem(dict_copy(metadata), "chunk_index",
                                          i - 1)]],
     metadata |-> metadata]

Segments == {"a", "b"}

MetadataKeys == {"source", "chunk_index"}

\* the metadata maps of documents; the value is no index of a chunk
Metadatas ==
    UNION {[ks -> {MaxChunks + 1}] : ks \in SUBSET MetadataKeys}

\* ChunkingEngine(config)
ChunkingEngineConstruct ==
    /\ chunker.state = "none"
    /\ \E config \in ChunkConfigs, strict \in BOOLEAN :
          chunker' = ChunkingEngine_init(config, strict)
    /\ UNCHANGED <<split, engine, embedded, index_vars, store_vars, run_vars>>

\* chunking_engine.split_text(text, metadata)
SplitText ==
    /\ chunker.state = "built"
    /\ \E chunks \in SeqsUpTo(Segments, MaxChunks), metadata \in Metadatas :
          split' = [called |-> TRUE, chunks |-> chunks, metadata |-> metadata,
                    out |-> ChunkingEngine_split_text(chunks, metadata)]
    /\ UNCHANGED <<chunker, engine, embedded, index_vars, store_vars,
                   run_vars>>

\* ------------------------------------------------------- embedding engine
\* self.dimension = 4096, embeddings.py line 51
DefaultDimension == 4096

Providers == {"huggingface", "ollama", "other"}

\* What the embeddings endpoint does with one request: the request fails
\* (connection error, HTTP error status, no "embedding" key in the reply),
\* the reply carries the model's vector, or it carries a null embedding.
Responses == {"error", "vector", "null"}

\* A list of floats is kept as its length, whether it is the fallback
\* [0.0] * n, and the text whose embedding it is; a null embedding has no
\* length.
ServerVector(n, t) == [kind |-> "server", len |-> n, text |-> t]
ZeroVector(n) == [kind |-> "zero", len |-> n, text |-> 0]
NullEmbedding(t) == [kind |-> "null", len |-> 0, text |-> t]

\* _embed_ollama, lines 71-86: one request per text, in order; a failed
\* request appends [0.0] * self.dimension
_embed_ollama(dimension, model_len, responses) ==
    [t \in 1..Len(responses) |->
        CASE responses[t] = "vector" -> ServerVector(model_len, t)
          [] responses[t] = "null" -> NullEmbedding(t)
          [] OTHER -> ZeroVector(dimension)]

\* len(dummy_emb[0]), line 44: raises on a null embedding
len(v) == IF v.kind = "null" THEN Raised ELSE Returned(v.len)

NoEngine ==
    [state |-> "none", provider |-> "other", dimension |-> 0, model_len |-> 0,
     probe |-> "vector"]

Engine(st, provider, dimension, model_len) ==
    [state |-> st, provider |-> provider, dimension |-> dimension,
     model_len |-> model_len]

\* a variant whose probe failure reaches the except block of line 48
ollama_probe_dimension_default(model_len, probe) ==
    IF probe = "vector" THEN model_len ELSE DefaultDimension

\* _initialize_provider, lines 39-51: the dimension the probe leaves.
\* self.dimension is still 0 (line 23) while the probe runs.
ollama_probe_dimension(model_len, probe) ==
    LET dummy_emb == _embed_ollama(0, model_len, <<probe>>)
        n == len(dummy_emb[1])
    IN  IF n.raised THEN DefaultDimension ELSE n.value

\* EmbeddingEngine.__init__, lines 13-51. loads: SentenceTransformer(...)
\* succeeds; dim_known: get_sentence_embedding_dimension() is not None.
EmbeddingEngine_init(provider, model_len, probe, loads, dim_known) ==
    CASE provider = "huggingface" ->
            IF ~loads THEN Engine("raised", provider, 0, model_len)
            ELSE Engine("built", provider,
                        IF dim_known THEN model_len ELSE 0, model_len)
      [] provider = "ollama" ->
            Engine("built", provider,
                   ollama_probe_dimension(model_len, probe), model_len)
      [] OTHER -> Engine("built", provider, 0, model_len)

\* embed_text on a list of texts, lines 53-69; the batch is given by what
\* the endpoint answers for each text
EmbeddingEngine_embed_text(eng, responses) ==
    CASE eng.provider = "huggingface" ->
            Returned([t \in 1..Len(responses) |->
                         ServerVector(eng.model_len, t)])
      [] eng.provider = "ollama" ->
            Returned(_embed_ollama(eng.dimension, eng.model_len, responses))
      [] OTHER -> Raised

NoCall == [called |-> FALSE]

IndexNames == {"docs", "other"}

NoIndices == <<>>

UnitIdle ==
    /\ engine = NoEngine
    /\ embedded = NoCall
    /\ index_name = "docs"
    /\ indices = NoIndices
    /\ create_index_calls = <<>>
    /\ chunker = NoChunker
    /\ split = NoCall
    /\ stored = NoCall
    /\ found = NoCall

\* the arguments of EmbeddingEngine(...) and what its provider does while
\* it is constructed
EngineInputs ==
    {e \in [provider : Providers, model_len : 1..MaxDim, probe : Responses,
            loads : BOOLEAN, dim_known : BOOLEAN] :
        /\ e.provider # "ollama" => e.probe = "vector"
        /\ e.provider # "huggingface" => (e.loads /\ e.dim_known)}

NewEngine(e) ==
    EmbeddingEngine_init(e.provider, e.model_len, e.probe, e.loads,
                         e.dim_known) @@ [probe |-> e.probe]

\* EmbeddingEngine(model_name, provider, config)
EngineConstruct ==
    /\ engine.state = "none"
    /\ \E e \in EngineInputs : engine' = NewEngine(e)
    /\ UNCHANGED <<embedded, index_vars, chunk_vars, store_vars, run_vars>>

\* engine.embed_text(texts)
EmbedText ==
    /\ engine.state = "built"
    /\ \E responses \in SeqsUpTo(Responses, MaxTexts) :
          /\ engine.provider # "ollama" =>
                \A t \in 1..Len(responses) : responses[t] = "vector"
          /\ embedded' = [called |-> TRUE, responses |-> responses,
                          out |-> EmbeddingEngine_embed_text(engine,
                                                             responses)]
    /\ UNCHANGED <<engine, index_vars, chunk_vars, store_vars, run_vars>>

EmbedInit == RunIdle /\ UnitIdle

EmbedNext == EngineConstruct \/ EmbedText

\* one embedding engine: its construction and the batches it embeds
EmbedSpec == EmbedInit /\ [][EmbedNext]_vars

ChunkInit == RunIdle /\ UnitIdle

ChunkNext == ChunkingEngineConstruct \/ SplitText

\* one chunking engine: its construction and the texts it splits
ChunkSpec == ChunkInit /\ [][ChunkNext]_vars

\* ---------------------------------------------------- vector store adapters
Adapters == {"opensearch", "qdrant", "pinecone", "milvus", "pgvector"}

PayloadKeys == {"content", "source_id", "page"}

MetadataValues == {"m", "n"}

\* the chunks written: their metadata maps may use the keys the payload of
\* an adapter uses for the content and the source id
Chunks ==
    {[content |-> "c", metadata |-> md, embedding |-> "v", source_id |-> "s",
      chunk_id |-> "id"] :
        md \in UNION {[ks -> MetadataValues] : ks \in SUBSET PayloadKeys}}

\* {"content": chunk.content, "source_id": chunk.source_id,
\*  **chunk.metadata}: the entries of the metadata come last and win
Payload(chunk) ==
    [k \in DOMAIN chunk.metadata \cup {"content", "source_id"} |->
        IF k \in DOMAIN chunk.metadata THEN chunk.metadata[k]
        ELSE IF k = "content" THEN chunk.content ELSE chunk.source_id]

\* payload.get(key, "")
PayloadGet(payload, key) ==
    IF key \in DOMAIN payload THEN payload[key] ELSE ""

\* {k: v for k, v in payload.items() if k != "content"}
PayloadMetadata(payload) ==
    [k \in DOMAIN payload \ {"content"} |-> payload[k]]

\* index_chunks of each adapter: what the store keeps of one chunk.
\* opensearch indexes chunk.model_dump(); milvus and pgvector keep the five
\* fields in columns; qdrant and pinecone keep id, vector and a flat payload.
StoredForm(adapter, chunk) ==
    IF adapter \in {"qdrant", "pinecone"}
    THEN [id |-> chunk.chunk_id, vector |-> chunk.embedding,
          payload |-> Payload(chunk)]
    ELSE chunk

\* search of each adapter: the dict built for a hit on the stored chunk.
\* with_vector tells whether the service sends the vector of a hit when the
\* query does not ask for it (qdrant, pinecone); milvus answers None.
SearchHit(adapter, kept, with_vector) ==
    CASE adapter \in {"qdrant", "pinecone"} ->
            [content |-> PayloadGet(kept.payload, "content"),
             metadata |-> PayloadMetadata(kept.payload),
             embedding |-> IF with_vector THEN kept.vector ELSE "None",
             source_id |-> PayloadGet(kept.payload, "source_id"),
             chunk_id |-> kept.id]
      [] adapter = "milvus" -> [kept EXCEPT !.embedding = "None"]
      [] OTHER -> kept

\* adapter.index_chunks(index_name, [chunk])
IndexChunk ==
    /\ ~stored.called
    /\ \E adapter \in Adapters, chunk \in Chunks :
          stored' = [called |-> TRUE, adapter |-> adapter, chunk |-> chunk,
                     kept |-> StoredForm(adapter, chunk)]
    /\ UNCHANGED <<found, engine, embedded, index_vars, chunk_vars, run_vars>>

\* adapter.search(index_name, query_vector): the hit on the written chunk
SearchChunk ==
    /\ stored.called
    /\ \E with_vector \in BOOLEAN :
          found' = [called |-> TRUE,
                    hit |-> SearchHit(stored.adapter, stored.kept,
                                      with_vector)]
    /\ UNCHANGED <<stored, engine, embedded, index_vars, chunk_vars,
                   run_vars>>

StoreInit == RunIdle /\ UnitIdle

StoreNext == IndexChunk \/ SearchChunk

\* one chunk written to a vector store and read back
StoreSpec == StoreInit /\ [][StoreNext]_vars

\* ----------------------------------------------------------------- Init
\* The job of one ingestion request over a source of sources, its run at
\* position at, the job registry holding store.
RunStateWith(sources, at, store, raising) ==
    /\ source \in sources
    /\ progress_raises_at \in raising
    /\ \/ execution_mode = "sequential" /\ max_workers = 1
       \/ execution_mode = "parallel" /\ max_workers \in 1..MaxWorkers
    /\ pc = at
    /\ pulls = 0
    /\ doc_count = 0
    /\ chunk_count = 0
    /\ tasks = <<>>
    /\ futures_to_doc_num = <<>>
    /\ result = NoResult
    /\ calls = <<>>
    /\ collected = <<>>
    /\ progress_calls = <<>>
    /\ total_calls = <<>>
    /\ submitted = <<>>
    /\ sink = <<>>
    /\ jobs_store = store
    /\ cancel_pc = "idle"
    /\ cancel_seen = "None"
    /\ cancels = 0
    /\ delete_pc = "idle"
    /\ deletes = 0
    /\ admin_response = NoAnswer
    /\ data_sources = DemoSources
    /\ adds = 0
    /\ source_response = NoAnswer
    /\ retry_response = NoResponse
    /\ retries = 0

\* the same under the callbacks of ingestion.py: update_progress does not
\* raise, jobs_store.update catches every exception
RunState(sources, at, store) == RunStateWith(sources, at, store, {0})

\* a variant of create_index that replaces an index that exists
create_index_replacing(idx, name, dimension, reachable) ==
    IF ~reachable THEN [raised |-> TRUE, indices |-> idx]
    ELSE [raised |-> FALSE,
          indices |-> [n \in DOMAIN idx \cup {name} |->
                          IF n = name THEN dimension ELSE idx[n]]]

\* create_index of the vector store, opensearch.py lines 29-57: an
\* existing index is left as it is; reachable is FALSE when the request to
\* the store raises
create_index(idx, name, dimension, reachable) ==
    IF ~reachable THEN [raised |-> TRUE, indices |-> idx]
    ELSE IF name \in DOMAIN idx THEN [raised |-> FALSE, indices |-> idx]
    ELSE [raised |-> FALSE, indices |-> (name :> dimension) @@ idx]

\* IngestionOrchestrator.__init__ with the defaults of its signature: a
\* huggingface engine, and the index made for its dimension
DefaultEngine ==
    NewEngine([provider |-> "huggingface", model_len |-> 1,
               probe |-> "vector", loads |-> TRUE, dim_known |-> TRUE])

Constructed ==
    /\ engine = DefaultEngine
    /\ embedded = NoCall
    /\ index_name = "docs"
    /\ indices = ("docs" :> DefaultEngine.dimension)
    /\ create_index_calls =
          <<[name |-> "docs", dimension |-> DefaultEngine.dimension,
             raised |-> FALSE]>>
    /\ chunker = Chunker("built", DefaultChunkConfig)
    /\ split = NoCall
    /\ stored = NoCall
    /\ found = NoCall

\* The state right after trigger_ingestion returned: the job record is
\* stored with status running, the orchestrator is constructed and run_job
\* waits in the background-task queue.
InitRun(sources) ==
    /\ RunState(sources, "queued", [j \in JobIds |-> NewJob])
    /\ Constructed

\* every stream of up to MaxDocs documents, from a source that reports no
\* total
Init ==
    InitRun([docs : SeqsUpTo(DocKinds, MaxDocs), raises : BOOLEAN,
             count : {NoCount}])

\* short streams, from sources that answer get_document_count in every way
TotalInit ==
    InitRun([docs : SeqsUpTo(SmallDocKinds, SmallDocs), raises : BOOLEAN,
             count : CountKinds])

cancel_vars == <<cancel_pc, cancel_seen, cancels>>

config_vars == <<source, execution_mode, max_workers, progress_raises_at>>

\* doc.source_id, doc.metadata and the segments of doc.content: the
\* documents of a stream are told apart by their ordinal
SourceId(ordinal) == ordinal

doc_metadata(ordinal) == [k \in {"source"} |-> ordinal]

doc_segments(ordinal, n) == [i \in 1..n |-> <<ordinal, i>>]

\* the vector the embedding engine returns for a text
Embedding(text) == [of |-> text]

\* a variant with one id per document
uuid4_once(ordinal, i) == <<ordinal, 1>>

\* str(uuid.uuid4()), line 86: a value no other call returns; the call is
\* named by the document being processed and the iteration of the loop
uuid4(ordinal, i) == <<ordinal, i>>

\* a variant that pairs every chunk with the first embedding
batch_embedding_first(embeddings, i) == embeddings[1]

\* embedding=embeddings[i], line 84
batch_embedding(embeddings, i) == embeddings[i]

\* lines 60-88: the Chunk list _process_document builds for the document
\* at ordinal, whose content splits into n segments
chunks_to_index(ordinal, n) ==
    LET raw_chunks == ChunkingEngine_split_text(doc_segments(ordinal, n),
                                                doc_metadata(ordinal)).result
        texts == [i \in 1..Len(raw_chunks) |-> raw_chunks[i].content]
        embeddings == [i \in 1..Len(texts) |-> Embedding(texts[i])]
    IN  [i \in 1..Len(raw_chunks) |->
            [content |-> raw_chunks[i].content,
             metadata |-> raw_chunks[i].metadata,
             embedding |-> batch_embedding(embeddings, i),
             source_id |-> SourceId(ordinal),
             chunk_id |-> uuid4(ordinal, i)]]

\* the batch of a _process_document call that reached index_chunks
SubmittedAfter(sub, ordinal, out) ==
    IF out.sink_calls = 1
    THEN (ordinal :> chunks_to_index(ordinal, source.docs[ordinal].chunks))
            @@ sub
    ELSE sub

\* the batch a finished _process_document call left in the vector store
SinkAfter(snk, ordinal, out) ==
    IF out.sink_calls = 1 /\ out.batch > 0
    THEN (ordinal :> [chunks |-> out.batch, success |-> out.ret]) @@ snk
    ELSE snk

\* -------------------------------------------------------------- run_job
\* run_job starts and enters run(): lines 171-173 and 104-134, with the
\* query of the total document count and the total callback (set_total)
RunJobStart ==
    /\ pc = "queued"
    /\ LET args == total_callback_args(source) IN
       /\ total_calls' = total_calls \o args
       /\ jobs_store' = IF args = <<>> THEN jobs_store
                         ELSE set_total(jobs_store, args[1])
    /\ pc' = IF execution_mode = "parallel" THEN "par_pull" ELSE "seq_pull"
    /\ UNCHANGED <<sources_vars, delete_vars, admin_response, retry_vars,
                   submitted, config_vars, pulls, doc_count, chunk_count,
                   tasks, futures_to_doc_num, result, calls, collected,
                   progress_calls, sink, cancel_vars, unit_vars>>

\* ---------------------------------------------------- run(): sequential
\* a variant that fetches the next document while the current one is still
\* being processed
SeqPull_ahead ==
    /\ pc \in {"seq_pull", "seq_process"}
    /\ pulls' = pulls + 1
    /\ IF pulls < Len(source.docs)
       THEN /\ doc_count' = doc_count + 1
            /\ pc' = "seq_process"
            /\ UNCHANGED result
       ELSE /\ result' = IF source.raises
                         THEN ErrorResult(doc_count, chunk_count)
                         ELSE SuccessResult(doc_count, chunk_count)
            /\ pc' = "returned"
            /\ UNCHANGED doc_count
    /\ UNCHANGED <<sources_vars, delete_vars, admin_response, retry_vars,
                   submitted, total_calls, config_vars, chunk_count, tasks,
                   futures_to_doc_num, calls, collected, progress_calls, sink,
                   jobs_store, cancel_vars, unit_vars>>

\* for doc in self.data_source.load_data(): one next() on the generator.
\* It yields the next document, ends the loop (return of the counts), or
\* raises (the except clause of run() returns the error dict).
SeqPull ==
    /\ pc = "seq_pull"
    /\ pulls' = pulls + 1
    /\ IF pulls < Len(source.docs)
       THEN /\ doc_count' = doc_count + 1
            /\ pc' = "seq_process"
            /\ UNCHANGED result
       ELSE /\ result' = IF source.raises
                         THEN ErrorResult(doc_count, chunk_count)
                         ELSE SuccessResult(doc_count, chunk_count)
            /\ pc' = "returned"
            /\ UNCHANGED doc_count
    /\ UNCHANGED <<sources_vars, delete_vars, admin_response, retry_vars,
                   submitted, total_calls, config_vars, chunk_count, tasks,
                   futures_to_doc_num, calls, collected, progress_calls, sink,
                   jobs_store, cancel_vars, unit_vars>>

\* lines 191-196: _process_document inline, chunk_count += chunks, then the
\* progress callback.  An exception out of _process_document or out of the
\* callback reaches the except clause of run().
SeqProcess ==
    /\ pc = "seq_process"
    /\ LET out == process_document(source.docs[pulls]) IN
       /\ calls' = (pulls :> out) @@ calls
       /\ submitted' = SubmittedAfter(submitted, pulls, out)
       /\ sink' = SinkAfter(sink, pulls, out)
       /\ IF out.raised
          THEN /\ result' = ErrorResult(doc_count, chunk_count)
               /\ pc' = "returned"
               /\ UNCHANGED <<chunk_count, progress_calls, jobs_store>>
          ELSE /\ chunk_count' = AddChunks(chunk_count, out.ret)
               /\ LET args == update_progress_args(doc_count, doc_count,
                                                   chunk_count')
                  IN  /\ progress_calls' = Append(progress_calls, args)
                      /\ IF progress_callback_raises(progress_raises_at,
                                                     Len(progress_calls'))
                         THEN /\ result' = ErrorResult(doc_count, chunk_count')
                              /\ pc' = "returned"
                              /\ UNCHANGED jobs_store
                         ELSE /\ jobs_store' = update_progress(jobs_store,
                                                   args[1], args[2])
                              /\ pc' = "seq_pull"
                              /\ UNCHANGED result
    /\ UNCHANGED <<sources_vars, delete_vars, admin_response, retry_vars,
                   total_calls, config_vars, pulls, doc_count, tasks,
                   futures_to_doc_num, collected, cancel_vars, unit_vars>>

\* ------------------------------------------------------ run(): parallel
\* lines 138-143 and the loop test of line 151: one next() on the generator.
\* A document is counted, submitted and recorded in futures_to_doc_num;
\* exhaustion leads to the drain loop; an exception leaves the with block.
ParPull ==
    /\ pc = "par_pull"
    /\ pulls' = pulls + 1
    /\ IF pulls < Len(source.docs)
       THEN LET future == Len(tasks) + 1 IN
            /\ doc_count' = doc_count + 1
            /\ tasks' = Append(tasks, [doc |-> pulls', state |-> "pending",
                                       result |-> Outcome(FALSE, 0, 0, 0, 0)])
            /\ futures_to_doc_num' =
                 [f \in DOMAIN futures_to_doc_num \cup {future} |->
                     IF f = future THEN doc_count' ELSE futures_to_doc_num[f]]
            /\ pc' = IF WindowFull(futures_to_doc_num', max_workers)
                     THEN "par_wait" ELSE "par_pull"
       ELSE /\ pc' = IF source.raises THEN "par_abort" ELSE "par_drain"
            /\ UNCHANGED <<doc_count, tasks, futures_to_doc_num>>
    /\ UNCHANGED <<sources_vars, delete_vars, admin_response, retry_vars,
                   submitted, total_calls, config_vars, chunk_count, result,
                   calls, collected, progress_calls, sink, jobs_store,
                   cancel_vars, unit_vars>>

\* lines 154-160 and 171-177: result() of a completed future, chunk_count +=
\* chunks, pop the future, progress callback.  result() re-raises what the
\* task raised, which leaves the with block, and so does an exception of
\* the callback.
Collect(future, phase, next_pc) ==
    LET out == tasks[future].result IN
    /\ collected' = Append(collected, [future |-> future, phase |-> phase])
    /\ IF out.raised
       THEN /\ pc' = "par_abort"
            /\ UNCHANGED <<chunk_count, futures_to_doc_num, progress_calls,
                           jobs_store>>
       ELSE /\ chunk_count' = AddChunks(chunk_count, out.ret)
            /\ futures_to_doc_num' = DictPop(futures_to_doc_num, future)
            /\ LET args == update_progress_args(futures_to_doc_num[future],
                                                doc_count, chunk_count')
               IN  /\ progress_calls' = Append(progress_calls, args)
                   /\ IF progress_callback_raises(progress_raises_at,
                                                  Len(progress_calls'))
                      THEN /\ pc' = "par_abort"
                           /\ UNCHANGED jobs_store
                      ELSE /\ jobs_store' = update_progress(jobs_store,
                                                args[1], args[2])
                           /\ pc' = IF next_pc = "par_pull"
                                       /\ WindowFull(futures_to_doc_num',
                                                     max_workers)
                                    THEN "par_wait" ELSE next_pc
    /\ UNCHANGED <<sources_vars, delete_vars, admin_response, retry_vars,
                   submitted, total_calls, config_vars, pulls, doc_count,
                   tasks, result, calls, sink, cancel_vars, unit_vars>>

\* lines 151-160: the window is full; next(as_completed(...)) blocks until
\* one of the futures in the dict is done and hands out a done one
ParBackpressure ==
    /\ pc = "par_wait"
    /\ \E future \in DOMAIN futures_to_doc_num :
          /\ tasks[future].state = "done"
          /\ Collect(future, "backpressure", "par_pull")

\* lines 170-177: the drain loop over as_completed(...) after the source is
\* exhausted
ParDrain ==
    /\ pc = "par_drain"
    /\ \E future \in DOMAIN futures_to_doc_num :
          /\ tasks[future].state = "done"
          /\ Collect(future, "drain", "par_drain")

\* a variant that returns without the drain loop
ParReturn_no_drain ==
    /\ pc = "par_drain"
    /\ AllDone(tasks)
    /\ result' = SuccessResult(doc_count, chunk_count)
    /\ pc' = "returned"
    /\ UNCHANGED <<sources_vars, delete_vars, admin_response, retry_vars,
                   submitted, total_calls, config_vars, pulls, doc_count,
                   chunk_count, tasks, futures_to_doc_num, calls, collected,
                   progress_calls, sink, jobs_store, cancel_vars, unit_vars>>

\* lines 185-210: the drain loop has handed out every future; the with block
\* exits (executor.shutdown(wait=True)) and run() returns the counts
ParReturn ==
    /\ pc = "par_drain"
    /\ DOMAIN futures_to_doc_num = {}
    /\ AllDone(tasks)
    /\ result' = SuccessResult(doc_count, chunk_count)
    /\ pc' = "returned"
    /\ UNCHANGED <<sources_vars, delete_vars, admin_response, retry_vars,
                   submitted, total_calls, config_vars, pulls, doc_count,
                   chunk_count, tasks, futures_to_doc_num, calls, collected,
                   progress_calls, sink, jobs_store, cancel_vars, unit_vars>>

\* a variant whose pool is shut down without waiting for its tasks
ParAbort_no_wait ==
    /\ pc = "par_abort"
    /\ result' = ErrorResult(doc_count, chunk_count)
    /\ pc' = "returned"
    /\ UNCHANGED <<sources_vars, delete_vars, admin_response, retry_vars,
                   submitted, total_calls, config_vars, pulls, doc_count,
                   chunk_count, tasks, futures_to_doc_num, calls, collected,
                   progress_calls, sink, jobs_store, cancel_vars, unit_vars>>

\* an exception left the with block: ThreadPoolExecutor.__exit__ waits for
\* every submitted task (shutdown(wait=True)), then lines 211-213 return the
\* error dict
ParAbort ==
    /\ pc = "par_abort"
    /\ AllDone(tasks)
    /\ result' = ErrorResult(doc_count, chunk_count)
    /\ pc' = "returned"
    /\ UNCHANGED <<sources_vars, delete_vars, admin_response, retry_vars,
                   submitted, total_calls, config_vars, pulls, doc_count,
                   chunk_count, tasks, futures_to_doc_num, calls, collected,
                   progress_calls, sink, jobs_store, cancel_vars, unit_vars>>

\* ------------------------------------------------------- the worker pool
\* a worker thread finishes _process_document(doc) and sets the future
TaskFinish ==
    \E future \in Running(tasks, max_workers) :
        LET ordinal == tasks[future].doc
            out == process_document(source.docs[ordinal]) IN
        /\ tasks' = [tasks EXCEPT ![future].state = "done", ![future].result = out]
        /\ calls' = (ordinal :> out) @@ calls
        /\ submitted' = SubmittedAfter(submitted, ordinal, out)
        /\ sink' = SinkAfter(sink, ordinal, out)
        /\ UNCHANGED <<sources_vars, delete_vars, admin_response, retry_vars,
                       total_calls, config_vars, pc, pulls, doc_count,
                       chunk_count, futures_to_doc_num, result, collected,
                       progress_calls, jobs_store, cancel_vars, unit_vars>>

\* ------------------------------------------------- run_job after run()
\* a variant that marks the record completed and keeps the counts of the
\* last progress callback
RunJobFinish_status_only ==
    /\ pc = "returned"
    /\ jobs_store' = StoreUpdate(jobs_store, JobId, [status |-> "completed"])
    /\ pc' = "job_done"
    /\ UNCHANGED <<sources_vars, delete_vars, admin_response, retry_vars,
                   submitted, total_calls, config_vars, pulls, doc_count,
                   chunk_count, tasks, futures_to_doc_num, result, calls,
                   collected, progress_calls, sink, cancel_vars, unit_vars>>

\* lines 174-184: run() returned (it never raises, so the except clause of
\* run_job is not reached); the record is marked completed with
\* result.get("documents", 0) and result.get("chunks", 0).  The later update
\* of the average speeds touches none of the fields kept here.
RunJobFinish ==
    /\ pc = "returned"
    /\ jobs_store' = StoreUpdate(jobs_store, JobId,
            [status |-> "completed",
             documents_processed |-> DictGet(result, "documents", 0),
             chunks_created |-> DictGet(result, "chunks", 0)])
    /\ pc' = "job_done"
    /\ UNCHANGED <<sources_vars, delete_vars, admin_response, retry_vars,
                   submitted, total_calls, config_vars, pulls, doc_count,
                   chunk_count, tasks, futures_to_doc_num, result, calls,
                   collected, progress_calls, sink, cancel_vars, unit_vars>>

\* ------------------------------------------------------------ cancel_job
\* lines 449-454: jobs_store.get and the status test (404 for an unknown id,
\* 400 for a job that is not running).  cancel_job and delete_job are
\* coroutines without an await: on the event loop one runs to its end before
\* the other starts, while run_job runs on a worker thread beside them.
CancelGet ==
    /\ cancel_pc = "idle"
    /\ delete_pc = "idle"
    /\ cancels < MaxCancels
    /\ cancels' = cancels + 1
    /\ cancel_seen' = IF JobId \in DOMAIN jobs_store
                      THEN jobs_store[JobId].status ELSE "None"
    /\ cancel_pc' = IF cancel_seen' = "running" THEN "checked" ELSE "idle"
    /\ admin_response' =
          CASE cancel_seen' = "None" -> Answer("cancel_job", 404)
            [] cancel_seen' # "running" -> Answer("cancel_job", 400)
            [] OTHER -> admin_response
    /\ UNCHANGED <<sources_vars, delete_vars, retry_vars, submitted,
                   unit_vars, total_calls, config_vars, pc, pulls, doc_count,
                   chunk_count, tasks, futures_to_doc_num, result, calls,
                   collected, progress_calls, sink, jobs_store>>

\* lines 457-464: the record is marked failed
CancelUpdate ==
    /\ cancel_pc = "checked"
    /\ jobs_store' = StoreUpdate(jobs_store, JobId,
            [status |-> "failed", error |-> "Job cancelled by user"])
    /\ cancel_pc' = "idle"
    /\ admin_response' = Answer("cancel_job", 200)
    /\ UNCHANGED <<sources_vars, delete_vars, retry_vars, submitted,
                   unit_vars, total_calls, config_vars, pc, pulls, doc_count,
                   chunk_count, tasks, futures_to_doc_num, result, calls,
                   collected, progress_calls, sink, cancel_seen, cancels>>

\* ------------------------------------------------------------ delete_job
\* jobs_store.delete(id)
StoreDelete(store, id) == [j \in DOMAIN store \ {id} |-> store[j]]

\* a variant of the status test that lets any stored job be deleted
delete_refused_never(job) == FALSE

\* if job.get("status") == "running", line 487
delete_refused(job) == job.status = "running"

\* lines 482-488: jobs_store.get and the status test (404 for an unknown id,
\* 400 for a running job)
DeleteGet ==
    /\ delete_pc = "idle"
    /\ cancel_pc = "idle"
    /\ deletes < MaxDeletes
    /\ deletes' = deletes + 1
    /\ IF JobId \notin DOMAIN jobs_store
       THEN /\ admin_response' = Answer("delete_job", 404)
            /\ delete_pc' = "idle"
       ELSE IF delete_refused(jobs_store[JobId])
       THEN /\ admin_response' = Answer("delete_job", 400)
            /\ delete_pc' = "idle"
       ELSE /\ delete_pc' = "checked"
            /\ UNCHANGED admin_response
    /\ UNCHANGED <<sources_vars, retry_vars, submitted, unit_vars,
                   total_calls, config_vars, pc, pulls, doc_count,
                   chunk_count, tasks, futures_to_doc_num, result, calls,
                   collected, progress_calls, sink, jobs_store, cancel_vars>>

\* lines 490-499: the record is removed
DeleteRemove ==
    /\ delete_pc = "checked"
    /\ jobs_store' = StoreDelete(jobs_store, JobId)
    /\ delete_pc' = "idle"
    /\ admin_response' = Answer("delete_job", 200)
    /\ UNCHANGED <<sources_vars, retry_vars, submitted, unit_vars,
                   total_calls, config_vars, pc, pulls, doc_count,
                   chunk_count, tasks, futures_to_doc_num, result, calls,
                   collected, progress_calls, sink, cancel_vars, deletes>>

\* ----------------------------------------- add_source and delete_source
\* sources.py lines 64-76: the new source takes the id str(len + 1) and is
\* appended; the answer is the new source
AddSource ==
    /\ adds < MaxAdds
    /\ adds' = adds + 1
    /\ \E name \in SourceNames :
          LET new_source == StoredSource(str(Len(data_sources) + 1), name) IN
          /\ data_sources' = Append(data_sources, new_source)
          /\ source_response' = [handler |-> "add_source", code |-> 200,
                                 id |-> new_source.id]
    /\ UNCHANGED <<delete_vars, admin_response, retry_vars, submitted,
                   unit_vars, total_calls, config_vars, pc, pulls, doc_count,
                   chunk_count, tasks, futures_to_doc_num, result, calls,
                   collected, progress_calls, sink, jobs_store, cancel_vars>>

\* sources.py lines 98-111: 404 when no stored source has the id, otherwise
\* the list is rebuilt without the sources of that id
DeleteSource ==
    /\ \E source_id \in SourceIds :
          IF \A i \in 1..Len(data_sources) : data_sources[i].id # source_id
          THEN /\ source_response' = [handler |-> "delete_source",
                                      code |-> 404, id |-> source_id]
               /\ UNCHANGED data_sources
          ELSE /\ data_sources' = WithoutId(data_sources, source_id)
               /\ source_response' = [handler |-> "delete_source",
                                      code |-> 200, id |-> source_id]
    /\ UNCHANGED <<adds, delete_vars, admin_response, retry_vars, submitted,
                   unit_vars, total_calls, config_vars, pc, pulls, doc_count,
                   chunk_count, tasks, futures_to_doc_num, result, calls,
                   collected, progress_calls, sink, jobs_store, cancel_vars>>

\* ------------------------------------------------------------- retry_job
\* an id no job was stored under
UnknownJobId == 0

RECURSIVE SetMax(_)
SetMax(S) ==
    IF S = {} THEN 0
    ELSE LET x == CHOOSE y \in S : TRUE
             m == SetMax(S \ {x})
         IN  IF x > m THEN x ELSE m

\* new_job_id = str(uuid.uuid4()), line 329: an id no record has
NewJobId(store) == SetMax(DOMAIN store \cup {JobId}) + 1

\* a variant that clones the original record
retry_job_data_clone(original, job_id) ==
    [original EXCEPT !.status = "running"] @@ [retried_from |-> job_id]

\* job_data of retry_job, lines 330-344
retry_job_data(original, job_id) ==
    [status |-> "running", documents_processed |-> 0, chunks_created |-> 0,
     error |-> "None", retried_from |-> job_id, config |-> original.config]

\* jobs_store.create(id, data)
StoreCreate(store, id, data) ==
    [j \in DOMAIN store \cup {id} |-> IF j = id THEN data ELSE store[j]]

\* retry_job, lines 264-443: 404 for an unknown id, 400 for a running job;
\* otherwise a new record is stored and its run is queued as a background
\* task of its own, which is not followed here.
RetryJob ==
    /\ retries < MaxRetries
    /\ retries' = retries + 1
    /\ \E job_id \in DOMAIN jobs_store \cup {UnknownJobId} :
          IF job_id \notin DOMAIN jobs_store
          THEN /\ retry_response' = Response(404, job_id, UnknownJobId)
               /\ UNCHANGED jobs_store
          ELSE LET original_job == jobs_store[job_id]
                   new_job_id == NewJobId(jobs_store) IN
               IF original_job.status = "running"
               THEN /\ retry_response' = Response(400, job_id, UnknownJobId)
                    /\ UNCHANGED jobs_store
               ELSE /\ jobs_store' =
                          StoreCreate(jobs_store, new_job_id,
                                      retry_job_data(original_job, job_id))
                    /\ retry_response' = Response(200, job_id, new_job_id)
    /\ UNCHANGED <<sources_vars, delete_vars, admin_response, submitted,
                   total_calls, config_vars, pc, pulls, doc_count,
                   chunk_count, tasks, futures_to_doc_num, result, calls,
                   collected, progress_calls, sink, cancel_vars, unit_vars>>

\* ------------------------------------------------------- specifications
\* one ingestion job, from the queued background task to the final record
Next ==
    \/ RunJobStart
    \/ SeqPull
    \/ SeqProcess
    \/ ParPull
    \/ ParBackpressure
    \/ ParDrain
    \/ ParReturn
    \/ ParAbort
    \/ TaskFinish
    \/ RunJobFinish

Spec == Init /\ [][Next]_vars

\* the same job with cancel_job requests arriving at any time
JobNext ==
    \/ Next
    \/ CancelGet
    \/ CancelUpdate

JobSpec == Init /\ [][JobNext]_vars

\* the short streams of accepted documents
PlainSources ==
    [docs : SeqsUpTo({d \in SmallDocKinds : d.fault = "none"}, SmallDocs),
     raises : BOOLEAN, count : {NoCount}]

RetryInit == InitRun(PlainSources)

RetryNext == JobNext \/ RetryJob

\* one job over a short stream, with cancel_job and retry_job requests
RetrySpec == RetryInit /\ [][RetryNext]_vars

\* the short streams, of documents that split well and documents whose
\* chunking raises
SmallSources ==
    [docs : SeqsUpTo(SmallDocKinds, SmallDocs), raises : BOOLEAN,
     count : {NoCount}]

CancelInit == InitRun(SmallSources)

\* One job over a short stream with cancel_job requests.  run_job is a
\* background task on a thread of its own and the tasks of the pool run on
\* worker threads: the scheduler lets each of them take its next step, so
\* the steps of the run are weakly fair.  Requests may never arrive.
CancelFairSpec == CancelInit /\ [][JobNext]_vars /\ WF_vars(Next)

\* One job over a short stream, nobody cancelling it.  The thread of run_job
\* and the worker threads of the pool are scheduled by the operating system,
\* which lets a thread that can take a step take one: the steps of the run
\* are weakly fair.
LiveSpec == CancelInit /\ [][Next]_vars /\ WF_vars(Next)

\* streams of up to MaxDocs documents that split well
CallbackSources ==
    [docs : SeqsUpTo({d \in SmallDocKinds : d.fault = "none"}, MaxDocs),
     raises : BOOLEAN, count : {NoCount}]

\* the run of an orchestrator built with a progress callback that may raise
CallbackInit ==
    /\ RunStateWith(CallbackSources, "queued", [j \in JobIds |-> NewJob],
                    0..MaxDocs)
    /\ Constructed

CallbackSpec == CallbackInit /\ [][Next]_vars

\* the source registry on its own: no ingestion request is made
SourcesInit == RunIdle /\ UnitIdle

SourcesNext == AddSource \/ DeleteSource

SourcesSpec == SourcesInit /\ [][SourcesNext]_vars

AdminNext == JobNext \/ DeleteGet \/ DeleteRemove

\* one job over a short stream, with cancel_job and delete_job requests
AdminSpec == CancelInit /\ [][AdminNext]_vars

\* one job over a short stream whose source may report a total
TotalSpec == TotalInit /\ [][Next]_vars

\* trigger_ingestion, lines 95-236: the job record is created, then the
\* orchestrator is constructed (the embedding engine first, then
\* create_index), then run_job is queued. An exception of the constructor
\* leaves the handler before add_task.
TriggerIngestion ==
    /\ pc = "idle"
    /\ chunker' = Chunker("built", DefaultChunkConfig)
    /\ jobs_store' = (JobId :> NewJob) @@ jobs_store
    /\ \E e \in EngineInputs, reachable \in BOOLEAN :
          LET eng == NewEngine(e)
              made == create_index(indices, index_name, eng.dimension,
                                   reachable)
          IN  /\ engine' = eng
              /\ IF eng.state = "raised"
                 THEN /\ pc' = "construct_failed"
                      /\ UNCHANGED <<indices, create_index_calls>>
                 ELSE /\ create_index_calls' =
                            Append(create_index_calls,
                                   [name |-> index_name,
                                    dimension |-> eng.dimension,
                                    raised |-> made.raised])
                      /\ indices' = made.indices
                      /\ pc' = IF made.raised THEN "construct_failed"
                               ELSE "queued"
    /\ UNCHANGED <<sources_vars, delete_vars, admin_response, retry_vars,
                   submitted, config_vars, pulls, doc_count, chunk_count,
                   tasks, futures_to_doc_num, result, calls, collected,
                   progress_calls, total_calls, sink, cancel_vars, embedded,
                   index_name, split, store_vars>>

\* the vector stores an ingestion request can meet: each index name is free
\* or taken by an index of some dimension
IndexStates ==
    UNION {[names -> 1..MaxDim] : names \in SUBSET IndexNames}

\* an ingestion request arrives: nothing is constructed yet
ConstructInit ==
    /\ RunState(PlainSources, "idle", <<>>)
    /\ engine = NoEngine
    /\ embedded = NoCall
    /\ index_name \in IndexNames
    /\ indices \in IndexStates
    /\ create_index_calls = <<>>
    /\ chunker = NoChunker
    /\ split = NoCall
    /\ stored = NoCall
    /\ found = NoCall

ConstructNext == TriggerIngestion \/ Next

\* one ingestion request, from the handler to the end of its job
ConstructSpec == ConstructInit /\ [][ConstructNext]_vars

\* ============================================================ properties
Finished == pc \in {"returned", "job_done"}

Succeeded == Finished /\ "documents" \in DOMAIN result

DocCount == Len(source.docs)

NoFaults == \A i \in 1..DocCount : source.docs[i].fault = "none"

AllAccepted == \A i \in 1..DocCount : source.docs[i].failed = 0

\* sum of the chunk counts C_i of the documents no step raises for
RECURSIVE SumChunks(_)
SumChunks(docs) ==
    IF docs = <<>> THEN 0
    ELSE (IF Head(docs).fault = "none" THEN Head(docs).chunks ELSE 0)
         + SumChunks(Tail(docs))

\* sum of the values _process_document returned for documents 1..n
RECURSIVE SumRet(_, _)
SumRet(cs, n) == IF n = 0 THEN 0 ELSE cs[n].ret + SumRet(cs, n - 1)

\* sum of the results of the first n collected futures
RECURSIVE SumCollected(_)
SumCollected(n) ==
    IF n = 0 THEN 0
    ELSE tasks[collected[n].future].result.ret + SumCollected(n - 1)

\* C1: in sequential mode, for a finite source of N documents where document
\* i splits into C_i chunks, nothing raises and the sink accepts every chunk,
\* run() returns {documents: N, chunks: C_1 + ... + C_N}.
C1_SequentialTotals ==
    (/\ execution_mode = "sequential"
     /\ Finished
     /\ ~source.raises /\ NoFaults /\ AllAccepted)
    => result = [documents |-> DocCount, chunks |-> SumChunks(source.docs)]

C1_Witness ==
    /\ execution_mode = "sequential"
    /\ Finished
    /\ ~source.raises /\ NoFaults /\ AllAccepted
    /\ DocCount = MaxDocs
    /\ \E i \in 1..DocCount : source.docs[i].chunks = 0
    /\ result = [documents |-> DocCount, chunks |-> SumChunks(source.docs)]
    /\ result.chunks >= MaxChunks

\* C2: in parallel mode the same inputs, processed without failures, give
\* the same aggregate {documents: N, chunks: C_1 + ... + C_N} for every
\* max_workers >= 1 and every completion order of the worker tasks.
C2_ParallelTotals ==
    (/\ execution_mode = "parallel"
     /\ Finished
     /\ ~source.raises /\ NoFaults /\ AllAccepted)
    => result = [documents |-> DocCount, chunks |-> SumChunks(source.docs)]

\* a run whose second document was collected before its first
C2_Witness ==
    /\ execution_mode = "parallel"
    /\ Finished
    /\ ~source.raises /\ NoFaults /\ AllAccepted
    /\ DocCount >= 2
    /\ Len(collected) >= 2
    /\ collected[1].future > collected[2].future
    /\ result = [documents |-> DocCount, chunks |-> SumChunks(source.docs)]
    /\ result.chunks > tasks[collected[Len(collected)].future].result.ret

\* C3: in both modes, when chunking, embedding or index_chunks raises for
\* some documents of a finite source, run() returns no error: every document
\* is still processed and the result is {documents: N, chunks: sum of the
\* chunk counts of the documents that did not fail}, N counting the failed
\* documents too.
C3_FailedDocumentsTolerated ==
    (/\ Finished
     /\ ~source.raises /\ ~NoFaults /\ AllAccepted)
    => /\ "error" \notin DOMAIN result
       /\ result = [documents |-> DocCount, chunks |-> SumChunks(source.docs)]
       /\ DOMAIN calls = 1..DocCount

\* a failed document followed by a document that contributed chunks
C3_Witness ==
    /\ Finished
    /\ ~source.raises /\ AllAccepted
    /\ DocCount >= 2
    /\ source.docs[1].fault = "chunking"
    /\ source.docs[DocCount].fault = "none"
    /\ "documents" \in DOMAIN result
    /\ result.documents = DocCount
    /\ result.chunks > 0

\* C4: _process_document never raises to its caller; when the chunking
\* engine, the embedding engine or the sink raises for the document it
\* returns 0.
C4_ProcessDocumentNeverRaises ==
    \A d \in DOMAIN calls :
        /\ ~calls[d].raised
        /\ source.docs[d].fault # "none" => calls[d].ret = 0

\* calls for documents that fail in each of the three steps have finished
C4_Witness ==
    /\ \A fault \in Faults \ {"none"} :
          \E d \in DOMAIN calls : source.docs[d].fault = fault
    /\ \A d \in DOMAIN calls : calls[d].ret = 0 /\ ~calls[d].raised

\* C5: when iterating the source's stream raises, in either mode, run() does
\* not raise: it returns a result with an error field and without
\* documents/chunks counts, and no document is pulled after the failure.
C5_SourceFailureIsRunLevel ==
    source.raises =>
        /\ pulls <= DocCount + 1
        /\ Finished => /\ "error" \in DOMAIN result
                       /\ "documents" \notin DOMAIN result
                       /\ "chunks" \notin DOMAIN result

\* a parallel run whose source broke after documents had been submitted
C5_Witness ==
    /\ source.raises
    /\ execution_mode = "parallel"
    /\ Finished
    /\ DocCount >= 2
    /\ pulls = DocCount + 1
    /\ chunk_count > 0
    /\ "error" \in DOMAIN result

\* C6: the job record tells the two outcomes apart: a job whose run() ended
\* in a run-level error finishes with status failed and its error field set;
\* a job in which documents merely contributed zero chunks finishes with
\* status completed and its counts.
C6_JobRecordDistinguishesOutcomes ==
    pc = "job_done" =>
        IF "error" \in DOMAIN result
        THEN /\ jobs_store[JobId].status = "failed"
             /\ jobs_store[JobId].error # "None"
        ELSE /\ jobs_store[JobId].status = "completed"
             /\ jobs_store[JobId].documents_processed = result.documents
             /\ jobs_store[JobId].chunks_created = result.chunks

\* C7: a job record's status only moves running -> completed or running ->
\* failed; once completed or failed it never changes again, under every
\* interleaving of cancel_job with the background run_job of the same job.
C7_TerminalStatusIsFinal ==
    [][\A j \in DOMAIN jobs_store :
          /\ j \in DOMAIN jobs_store'
          /\ jobs_store'[j].status # jobs_store[j].status
                => /\ jobs_store[j].status = "running"
                   /\ jobs_store'[j].status \in {"completed", "failed"}]_vars

\* C8: in parallel mode the number of submitted tasks whose result has not
\* been collected never exceeds 2 x max_workers, and a document is pulled
\* from the source only while fewer than 2 x max_workers are in the window.
C8_WindowBounded ==
    /\ [](execution_mode = "parallel" =>
            /\ Len(tasks) - Len(collected) <= 2 * max_workers
            /\ Cardinality(DOMAIN futures_to_doc_num) <= 2 * max_workers)
    /\ [][(execution_mode = "parallel" /\ pulls' # pulls) =>
            Len(tasks) - Len(collected) < 2 * max_workers]_vars

\* the window filled up, the run waited, and a later document was pulled
C8_Witness ==
    /\ execution_mode = "parallel"
    /\ Len(collected) >= 1
    /\ collected[1].phase = "backpressure"
    /\ Len(tasks) > 2 * max_workers
    /\ Len(tasks) - Len(collected) = 2 * max_workers

\* C9: in parallel mode, when run() returns a success result no task is in
\* flight and the result of every submitted document has been added to the
\* chunk total exactly once, in the backpressure loop or in the final drain.
C9_EveryResultCollectedOnce ==
    (execution_mode = "parallel" /\ Succeeded) =>
        /\ DOMAIN futures_to_doc_num = {}
        /\ AllDone(tasks)
        /\ Len(tasks) = doc_count
        /\ \A f \in 1..Len(tasks) :
              Cardinality({i \in 1..Len(collected) : collected[i].future = f}) = 1
        /\ DOMAIN calls = 1..doc_count
        /\ result.chunks = SumRet(calls, doc_count)

\* a successful run that collected in both loops
C9_Witness ==
    /\ execution_mode = "parallel"
    /\ Succeeded
    /\ \E i \in 1..Len(collected) : collected[i].phase = "backpressure"
    /\ \E i \in 1..Len(collected) : collected[i].phase = "drain"
    /\ result.chunks >= 2

\* C10: a run over N documents that ends successfully invokes the progress
\* callback exactly N times; in sequential mode the k-th invocation carries
\* (k, chunk total after document k); in parallel mode there is one
\* invocation per document, carrying the ordinal the document had when it
\* was queued and the chunk total at the time of collection.
C10_ProgressCallbacks ==
    Succeeded =>
        /\ Len(progress_calls) = DocCount
        /\ {progress_calls[k][1] : k \in 1..Len(progress_calls)} = 1..DocCount
        /\ execution_mode = "sequential" =>
              \A k \in 1..DocCount :
                  progress_calls[k] = <<k, SumRet(calls, k)>>
        /\ execution_mode = "parallel" =>
              /\ Len(collected) = DocCount
              /\ \A k \in 1..DocCount :
                    progress_calls[k] =
                        <<tasks[collected[k].future].doc, SumCollected(k)>>

\* a parallel run whose callbacks arrived out of submission order
C10_Witness ==
    /\ Succeeded
    /\ execution_mode = "parallel"
    /\ Len(progress_calls) = MaxDocs
    /\ progress_calls[1][1] > progress_calls[2][1]
    /\ progress_calls[1][2] > 0
    /\ progress_calls[MaxDocs][2] > progress_calls[1][2]

\* the count the source reported, when the query returned one
Reported == source.count.has /\ ~source.count.raises

\* C11 as stated: before the first document is pulled the run asks the
\* source for its total; a reported count is forwarded once to the total
\* callback, no call is made when the query is missing or raises, and
\* neither case makes the run fail.
C11_ReportedCountForwarded ==
    /\ [](pc # "queued" =>
            /\ Reported => total_calls = <<source.count.value>>
            /\ ~Reported => total_calls = <<>>)
    /\ [](Finished /\ ~source.raises => "documents" \in DOMAIN result)
    /\ [][total_calls' # total_calls => pulls' = 0]_vars

\* C11, amended: a reported count other than 0 is forwarded once to the
\* total callback before the first document is pulled and lands in the job
\* record; a count of 0, a missing query and a raising query cause no call;
\* none of these makes the run fail.
C11_NonZeroCountForwarded ==
    /\ [](pc # "queued" =>
            /\ Reported /\ source.count.value # 0 =>
                  /\ total_calls = <<source.count.value>>
                  /\ jobs_store[JobId].total_documents = source.count.value
            /\ ~(Reported /\ source.count.value # 0) =>
                  /\ total_calls = <<>>
                  /\ jobs_store[JobId].total_documents = 0)
    /\ [](Finished /\ ~source.raises => "documents" \in DOMAIN result)
    /\ [][total_calls' # total_calls => pulls' = 0]_vars

\* a run that finished over a source that reported MaxCount documents
C11_Witness ==
    /\ Finished
    /\ Reported /\ source.count.value = MaxCount
    /\ total_calls = <<MaxCount>>
    /\ pulls > 0


\* C12: when the probe request of the ollama provider fails while the
\* EmbeddingEngine is constructed, construction does not raise and the
\* engine's dimension is the default 4096.
C12_FailedProbeGivesDefaultDimension ==
    (engine.state # "none" /\ engine.provider = "ollama"
        /\ engine.probe = "error")
    => (engine.state = "built" /\ engine.dimension = DefaultDimension)

\* the vector embed_text owes for text t of the batch
ExpectedVector(eng, responses, t) ==
    IF eng.provider = "ollama" /\ responses[t] = "error"
    THEN ZeroVector(eng.dimension)
    ELSE ServerVector(eng.dimension, t)

\* C13: embed_text on a batch of K texts returns exactly K vectors in
\* input order, each as long as the engine's declared dimension; with the
\* ollama provider a request that fails for one text yields a zero vector
\* of the declared dimension at that position, leaves the other vectors as
\* the model produced them, and raises nothing.
C13_BatchEmbedding ==
    (embedded.called /\ engine.provider \in {"huggingface", "ollama"})
    => /\ ~embedded.out.raised
       /\ Len(embedded.out.value) = Len(embedded.responses)
       /\ \A t \in 1..Len(embedded.responses) :
             embedded.out.value[t]
                = ExpectedVector(engine, embedded.responses, t)


ConstructorRaised == pc = "construct_failed"

\* C14: constructing an IngestionOrchestrator calls create_index exactly
\* once, with the requested index name and the embedding engine's dimension,
\* before any document is processed; an index that already exists is left
\* unchanged and is no error; when the embedding engine's construction or
\* create_index raises, the constructor raises and the run never starts.
C14_IndexEnsuredAtConstruction ==
    /\ [](pc \notin {"idle", "construct_failed"} =>
            /\ engine.state = "built"
            /\ create_index_calls =
                  <<[name |-> index_name, dimension |-> engine.dimension,
                     raised |-> FALSE]>>
            /\ index_name \in DOMAIN indices)
    /\ [](pc # "idle" /\ (engine.state = "raised"
                          \/ \E c \in 1..Len(create_index_calls) :
                                create_index_calls[c].raised)
            => ConstructorRaised)
    /\ [](ConstructorRaised =>
            /\ pulls = 0 /\ calls = <<>> /\ sink = <<>>
            /\ Len(create_index_calls) <= 1
            /\ engine.state = "raised" => create_index_calls = <<>>)
    /\ [][/\ ConstructorRaised => UNCHANGED vars
          /\ create_index_calls' # create_index_calls => pulls' = 0
          /\ \A n \in DOMAIN indices :
                n \in DOMAIN indices' /\ indices'[n] = indices[n]
          /\ \A n \in DOMAIN indices' \ DOMAIN indices :
                n = index_name /\ indices'[n] = engine'.dimension]_vars

\* a finished run whose constructor met an index of another dimension under
\* the requested name
C14_Witness ==
    /\ pc = "job_done"
    /\ doc_count > 0
    /\ create_index_calls # <<>>
    /\ indices[index_name] # engine.dimension


\* C17: split_text returns the splitter's segments in document order; the
\* i-th result (counting from 0) has the input metadata plus chunk_index =
\* i; the caller's metadata map is left as it was.
C17_SplitTextMetadata ==
    split.called =>
       /\ Len(split.out.result) = Len(split.chunks)
       /\ \A i \in 1..Len(split.chunks) :
             LET r == split.out.result[i] IN
             /\ r.content = split.chunks[i]
             /\ DOMAIN r.metadata = DOMAIN split.metadata \cup {"chunk_index"}
             /\ r.metadata["chunk_index"] = i - 1
             /\ \A k \in DOMAIN split.metadata \ {"chunk_index"} :
                   r.metadata[k] = split.metadata[k]
       /\ split.out.metadata = split.metadata

\* a text of MaxChunks different segments split with a metadata map that
\* has a source entry
C17_Witness ==
    /\ split.called
    /\ Len(split.chunks) = MaxChunks
    /\ split.chunks[1] # split.chunks[MaxChunks]
    /\ DOMAIN split.metadata = {"source"}
    /\ split.out.result[MaxChunks].metadata["chunk_index"] = MaxChunks - 1

\* chunk_overlap < chunk_size, with a positive size
ValidChunkConfig(config) ==
    config.chunk_size > 0 /\ config.chunk_overlap < config.chunk_size

\* C18: a ChunkConfig whose overlap is equal to or larger than its size, or
\* whose size is <= 0, is rejected or clamped before any document is
\* chunked: no text is ever split by an engine holding such a config.
C18_InvalidChunkConfigNeverUsed ==
    split.called => ValidChunkConfig(chunker.config)


\* C15: no two chunks submitted to the sink during one run share a
\* chunk_id, in sequential and in parallel mode.
C15_ChunkIdsUnique ==
    \A o1 \in DOMAIN submitted, o2 \in DOMAIN submitted :
        \A i1 \in DOMAIN submitted[o1], i2 \in DOMAIN submitted[o2] :
            submitted[o1][i1].chunk_id = submitted[o2][i2].chunk_id
                => (o1 = o2 /\ i1 = i2)

\* a finished parallel run that submitted two batches of MaxChunks chunks
C15_Witness ==
    /\ Finished
    /\ execution_mode = "parallel"
    /\ \E o1 \in DOMAIN submitted, o2 \in DOMAIN submitted :
          /\ o1 # o2
          /\ Len(submitted[o1]) = MaxChunks
          /\ Len(submitted[o2]) = MaxChunks

\* C16: every chunk submitted to the sink carries the source_id of the
\* document it was split from, the content and metadata of the i-th raw
\* chunk of that document and the i-th embedding of that document's batch,
\* in both modes and under every interleaving of the tasks; a batch never
\* mixes chunks of two documents.
C16_ChunksBelongToTheirDocument ==
    \A o \in DOMAIN submitted :
        /\ o \in 1..pulls
        /\ Len(submitted[o]) = source.docs[o].chunks
        /\ \A i \in DOMAIN submitted[o] :
              LET c == submitted[o][i] IN
              /\ c.source_id = SourceId(o)
              /\ c.content = doc_segments(o, Len(submitted[o]))[i]
              /\ c.metadata = SetItem(doc_metadata(o), "chunk_index", i - 1)
              /\ c.embedding = Embedding(c.content)

\* two tasks of a parallel run finished out of submission order, and both
\* handed a batch to the sink
C16_Witness ==
    /\ execution_mode = "parallel"
    /\ Len(tasks) >= 2
    /\ tasks[1].state = "pending"
    /\ tasks[2].state = "done"
    /\ tasks[2].doc \in DOMAIN submitted
    /\ Len(submitted[tasks[2].doc]) = MaxChunks


\* the retry_job request answered in this step
Retried == retries' # retries

C20_StoreRoundTrip ==
    found.called =>
       /\ found.hit.content = stored.chunk.content
       /\ found.hit.embedding = stored.chunk.embedding
       /\ found.hit.metadata = stored.chunk.metadata
       /\ found.hit.source_id = stored.chunk.source_id
       /\ found.hit.chunk_id = stored.chunk.chunk_id


\* cancel_job has marked the job failed; no later update touches the error
Cancelled ==
    /\ JobId \in DOMAIN jobs_store
    /\ jobs_store[JobId].error = "Job cancelled by user"

\* C21: cancel_job does not interrupt the orchestrator.  After a running
\* job was cancelled its run() still processes every remaining document
\* and returns normally, run_job finishes, and the progress and completion
\* updates of the run are still written to the cancelled job's record.
C21_CancelDoesNotInterrupt ==
    /\ [](Cancelled /\ Finished /\ ~source.raises =>
            /\ Succeeded
            /\ result.documents = DocCount
            /\ DOMAIN calls = 1..DocCount)
    /\ [][Cancelled /\ pc = "returned" /\ pc' = "job_done" =>
            /\ jobs_store'[JobId].status = "completed"
            /\ jobs_store'[JobId].documents_processed
                  = DictGet(result, "documents", 0)
            /\ jobs_store'[JobId].chunks_created
                  = DictGet(result, "chunks", 0)]_vars
    /\ [][Cancelled /\ progress_calls' # progress_calls =>
            LET args == progress_calls'[Len(progress_calls')] IN
            /\ jobs_store'[JobId].documents_processed = args[1]
            /\ jobs_store'[JobId].chunks_created = args[2]]_vars
    /\ (Cancelled ~> pc = "job_done")

\* a job cancelled before its first progress callback, whose run went on
\* to report progress into the record
C21_Witness ==
    /\ Cancelled
    /\ pc \notin {"returned", "job_done"}
    /\ jobs_store[JobId].status = "failed"
    /\ Len(progress_calls) = SmallDocs
    /\ jobs_store[JobId].documents_processed > 0
    /\ jobs_store[JobId].chunks_created > 0

\* C22: cancel_job succeeds only for a job whose status it read as running
\* and then sets status failed with error 'Job cancelled by user'; delete_job
\* succeeds only for a job whose status is not running and then removes the
\* record; for an unknown id both answer 404 and for a job in the wrong
\* status both answer 400, and a rejected request leaves all job records
\* unchanged.
C22_CancelAndDeleteStatusRules ==
    /\ [][cancels' # cancels =>
            /\ jobs_store' = jobs_store
            /\ IF JobId \notin DOMAIN jobs_store
               THEN /\ admin_response' = Answer("cancel_job", 404)
                    /\ cancel_pc' = "idle"
               ELSE IF jobs_store[JobId].status # "running"
               THEN /\ admin_response' = Answer("cancel_job", 400)
                    /\ cancel_pc' = "idle"
               ELSE /\ admin_response' = admin_response
                    /\ cancel_pc' = "checked"]_vars
    /\ [][cancel_pc = "checked" /\ cancel_pc' = "idle" =>
            /\ cancel_seen = "running"
            /\ admin_response' = Answer("cancel_job", 200)
            /\ JobId \in DOMAIN jobs_store'
            /\ jobs_store'[JobId].status = "failed"
            /\ jobs_store'[JobId].error = "Job cancelled by user"]_vars
    /\ [][deletes' # deletes =>
            /\ jobs_store' = jobs_store
            /\ IF JobId \notin DOMAIN jobs_store
               THEN /\ admin_response' = Answer("delete_job", 404)
                    /\ delete_pc' = "idle"
               ELSE IF jobs_store[JobId].status = "running"
               THEN /\ admin_response' = Answer("delete_job", 400)
                    /\ delete_pc' = "idle"
               ELSE /\ admin_response' = admin_response
                    /\ delete_pc' = "checked"]_vars
    /\ [][delete_pc = "checked" /\ delete_pc' = "idle" =>
            /\ admin_response' = Answer("delete_job", 200)
            /\ JobId \in DOMAIN jobs_store
            /\ jobs_store[JobId].status # "running"
            /\ JobId \notin DOMAIN jobs_store']_vars
    /\ [][admin_response'.code = 200 /\ admin_response' # admin_response =>
            \/ cancel_pc = "checked" /\ cancel_pc' = "idle"
            \/ delete_pc = "checked" /\ delete_pc' = "idle"]_vars

\* the job was cancelled while running, then deleted, and a second delete_job
\* found no record
C22_Witness ==
    /\ cancels = 1
    /\ cancel_seen = "running"
    /\ JobId \notin DOMAIN jobs_store
    /\ deletes = 2
    /\ admin_response = Answer("delete_job", 404)

\* sum of the success counts index_chunks reported for documents 1..n
RECURSIVE SumSuccess(_, _)
SumSuccess(snk, n) ==
    IF n = 0 THEN 0
    ELSE (IF n \in DOMAIN snk THEN snk[n].success ELSE 0)
         + SumSuccess(snk, n - 1)

\* C23: _process_document returns 0 without calling the embedding engine or
\* the sink when the document splits into zero chunks; otherwise (no step
\* raising) it makes one embed call and one index_chunks call for the whole
\* document and returns the sink's success count, ignoring the failed count;
\* the chunk total run() returns is the sum of the success counts the sink
\* reported.
C23_ProcessDocumentReturnsSuccessCount ==
    /\ \A i \in DOMAIN calls :
          LET doc == source.docs[i]
              out == calls[i] IN
          /\ out.embed_calls <= 1 /\ out.sink_calls <= 1
          /\ split_text(doc) = Returned(0) =>
                out.ret = 0 /\ out.embed_calls = 0 /\ out.sink_calls = 0
          /\ (doc.fault = "none" /\ doc.chunks > 0) =>
                /\ out.embed_calls = 1 /\ out.sink_calls = 1
                /\ out.batch = doc.chunks
                /\ out.ret = index_chunks(doc, doc.chunks).value
                /\ i \in DOMAIN sink
                /\ sink[i].chunks = doc.chunks
                /\ sink[i].success = out.ret
    /\ Succeeded => result.chunks = SumSuccess(sink, DocCount)

\* a run over an empty document and a document of which the sink rejected a
\* chunk: the total is the sum of the success counts, below the chunk count
C23_Witness ==
    /\ Succeeded
    /\ DocCount = MaxDocs
    /\ \E i \in DOMAIN calls :
          split_text(source.docs[i]) = Returned(0) /\ calls[i].sink_calls = 0
    /\ \E i \in DOMAIN calls :
          /\ source.docs[i].failed = 1
          /\ calls[i].sink_calls = 1
          /\ calls[i].ret = source.docs[i].chunks - 1
    /\ result.chunks = SumSuccess(sink, DocCount)
    /\ result.chunks > 0
    /\ result.chunks < SumChunks(source.docs)

\* C24: every job record created by trigger_ingestion or retry_job leaves
\* status running and reaches completed or failed, also when constructing
\* the chunk config or the orchestrator raises after the record was stored:
\* once the handler has ended without queueing run_job, nothing will write
\* the record again, so it must not be left running.
C24_RecordLeavesRunning ==
    pc = "construct_failed" =>
        \A j \in DOMAIN jobs_store :
            jobs_store[j].status \in {"completed", "failed"}

\* C25: in parallel mode, when the source raises mid-stream while tasks are
\* in flight, run() returns its error result only after every submitted task
\* has finished: after run() has returned no _process_document task of the
\* run is executing or writes to the sink.
C25_AbortWaitsForTasks ==
    /\ [](execution_mode = "parallel" /\ Finished => AllDone(tasks))
    /\ [][pc = "par_abort" /\ pc' = "returned" =>
            /\ AllDone(tasks)
            /\ "error" \in DOMAIN result']_vars
    /\ [][execution_mode = "parallel" /\ Finished =>
            /\ tasks' = tasks
            /\ calls' = calls
            /\ submitted' = submitted
            /\ sink' = sink]_vars

\* the source raised while submitted tasks had not been collected; run()
\* returned the error after each of them had written its batch to the sink
C25_Witness ==
    /\ execution_mode = "parallel"
    /\ Finished
    /\ source.raises
    /\ "error" \in DOMAIN result
    /\ Len(tasks) >= 2
    /\ collected = <<>>
    /\ AllDone(tasks)
    /\ DOMAIN sink = 1..Len(tasks)

\* C26: in parallel mode the chunk total passed to successive progress
\* callbacks is non-decreasing and the last callback carries the chunk total
\* run() returns, while the document ordinal passed may decrease; after a
\* successful run_job the record holds documents_processed = N and
\* chunks_created = the returned chunk total, whatever the order in which
\* the tasks completed.
C26_ParallelProgressTotals ==
    execution_mode = "parallel" =>
        /\ \A k \in 1..(Len(progress_calls) - 1) :
              progress_calls[k][2] <= progress_calls[k + 1][2]
        /\ (Succeeded /\ progress_calls # <<>>) =>
              progress_calls[Len(progress_calls)][2] = result.chunks
        /\ (Succeeded /\ pc = "job_done") =>
              /\ jobs_store[JobId].status = "completed"
              /\ jobs_store[JobId].documents_processed = DocCount
              /\ jobs_store[JobId].chunks_created = result.chunks

\* a finished job whose documents were collected out of order: the ordinal
\* of the last callback is below N, the record holds N
C26_Witness ==
    /\ execution_mode = "parallel"
    /\ Succeeded /\ pc = "job_done"
    /\ DocCount = MaxDocs
    /\ Len(progress_calls) = DocCount
    /\ \E k \in 1..(Len(progress_calls) - 1) :
          /\ progress_calls[k][1] > progress_calls[k + 1][1]
          /\ progress_calls[k][2] < progress_calls[k + 1][2]
    /\ progress_calls[Len(progress_calls)][1] < DocCount
    /\ progress_calls[Len(progress_calls)][2] = result.chunks
    /\ jobs_store[JobId].documents_processed = DocCount

\* the progress callback has raised
CallbackRaised ==
    progress_raises_at # 0 /\ Len(progress_calls) = progress_raises_at

\* C27: an exception raised by the progress callback is not isolated like a
\* per-document failure: in either mode it ends the run, run() returns a
\* result with an error field instead of counts, and no further document is
\* pulled from the source.
C27_CallbackFailureIsRunLevel ==
    /\ [](CallbackRaised => pc \in {"par_abort", "returned", "job_done"})
    /\ [](CallbackRaised /\ Finished =>
            /\ "error" \in DOMAIN result
            /\ "documents" \notin DOMAIN result
            /\ "chunks" \notin DOMAIN result)
    /\ [][CallbackRaised =>
            /\ pulls' = pulls
            /\ doc_count' = doc_count
            /\ progress_calls' = progress_calls]_vars

\* a parallel run over a healthy source ended by its callback, documents of
\* the source left unpulled
C27_Witness ==
    /\ CallbackRaised
    /\ execution_mode = "parallel"
    /\ Finished
    /\ ~source.raises
    /\ DocCount = MaxDocs
    /\ pulls < DocCount
    /\ "error" \in DOMAIN result

\* C28: in sequential mode the sink receives the documents' chunk batches in
\* the order the source yielded the documents, and document k+1 is not
\* pulled from the source before the processing of document k, its sink call
\* and its progress callback included, has finished.
C28_SequentialOrder ==
    /\ [](execution_mode = "sequential" =>
            /\ DOMAIN calls \in {1..pulls, 1..(pulls - 1)}
            /\ \A d \in DOMAIN submitted : d \in DOMAIN calls)
    /\ [][execution_mode = "sequential" /\ submitted' # submitted =>
            \E d \in DOMAIN submitted' :
                /\ DOMAIN submitted' = DOMAIN submitted \cup {d}
                /\ d = pulls
                /\ \A e \in DOMAIN submitted : e < d
                /\ \A e \in DOMAIN submitted : submitted'[e] = submitted[e]]_vars
    /\ [][execution_mode = "sequential" /\ pulls' # pulls =>
            /\ DOMAIN calls = 1..pulls
            /\ Len(progress_calls) = pulls
            /\ \A d \in 1..pulls :
                  calls[d].sink_calls = 1 => d \in DOMAIN submitted]_vars

\* a sequential run in which every document of the stream reached the sink
C28_Witness ==
    /\ execution_mode = "sequential"
    /\ Succeeded
    /\ DocCount = MaxDocs
    /\ DOMAIN submitted = 1..MaxDocs
    /\ Len(progress_calls) = MaxDocs
    /\ pulls = MaxDocs + 1

\* C29: for a finite source, max_workers >= 1 and per-document processing
\* that terminates, run() eventually returns in both modes: the parallel
\* wait on a full window and the final drain do not deadlock when the worker
\* pool is scheduled fairly.
C29_RunReturns ==
    /\ <>Finished
    /\ (pc = "par_wait") ~> (pc # "par_wait")
    /\ (pc = "par_drain") ~> Finished

\* a parallel run that waited on a full window, drained and returned
C29_Witness ==
    /\ execution_mode = "parallel"
    /\ Finished
    /\ \E i \in 1..Len(collected) : collected[i].phase = "backpressure"
    /\ \E i \in 1..Len(collected) : collected[i].phase = "drain"
    /\ "documents" \in DOMAIN result

\* C30: after any sequence of add_source and delete_source calls the stored
\* data sources have pairwise distinct ids, so that deleting the source a
\* create returned removes that source and no other.
C30_SourceIdsDistinct ==
    \A i, j \in 1..Len(data_sources) :
        i # j => data_sources[i].id # data_sources[j].id

============================================================================
